---- MODULE Spec2Model ----
(***************************************************************************)
(* Model of URL/URL_Dangerouswords.py: the prompt / check_url / load_url / *)
(* scan / save pipeline of main, the two regular expressions, and the two  *)
(* writers.  Strings are sequences of one-character strings, so that the   *)
(* regular expressions, str.strip, str.startswith, Path.suffix and         *)
(* bytes.decode are computed character by character.                       *)
(***************************************************************************)
EXTENDS Integers, Sequences, FiniteSets, TLC

VARIABLES
    pc,              \* position of the run
    url,             \* main: url (after .strip())
    is_valid,        \* main: first component of check_url's result
    content_type,    \* main: second component of check_url's result
    resp,            \* the response check_url received (ct, body, whether the body was read)
    content,         \* main: content returned by load_url / text handed to the pure functions
    path,            \* main: path (after .strip of quotes) / path handed to a writer
    is_binary,       \* writer: the is_binary flag of the call
    text_content,    \* main: HTML_CLEANER.sub('', content)
    dangerous_words, \* main: count_words(text_content)
    requests,        \* sequence of urlopen calls made so far
    files,           \* files this run has written: set of [name, data, mode]
    dirsMade,        \* directories created by mkdir(parents=True)
    output,          \* lines printed so far
    raised,          \* exception that left the operation ("none" when it returned)
    call,            \* the writer call made: writer, path given, mode, and its result
    steps            \* the calls of main that have returned normally, in order

vars == <<pc, url, is_valid, content_type, resp, content, path, is_binary,
          text_content, dangerous_words, requests, files, dirsMade, output,
          raised, call, steps>>

\* -------------------------------------------------------------------------
\* Bounds
\* -------------------------------------------------------------------------
\* maximal number of pieces a scanned text is assembled from
MaxPieces == 3

\* -------------------------------------------------------------------------
\* Characters
\* -------------------------------------------------------------------------
LowerLetters == <<"a","b","c","d","e","f","g","h","i","j","k","l","m",
                  "n","o","p","q","r","s","t","u","v","w","x","y","z">>

UpperLetters == <<"A","B","C","D","E","F","G","H","I","J","K","L","M",
                  "N","O","P","Q","R","S","T","U","V","W","X","Y","Z">>

Digits == {"0","1","2","3","4","5","6","7","8","9"}

Range(s) == {s[i] : i \in 1..Len(s)}

\* \w of the re module, restricted to ASCII
IsWordChar(c) == c \in Range(LowerLetters) \cup Range(UpperLetters) \cup Digits \cup {"_"}

\* str.lower on one character
LowerChar(c) ==
    IF c \in Range(UpperLetters)
    THEN LowerLetters[CHOOSE i \in 1..26 : UpperLetters[i] = c]
    ELSE c

\* str.lower
Lower(s) == [i \in 1..Len(s) |-> LowerChar(s[i])]

\* str.startswith
StartsWith(s, p) == Len(s) >= Len(p) /\ SubSeq(s, 1, Len(p)) = p

\* str.endswith
EndsWith(s, p) == Len(s) >= Len(p) /\ SubSeq(s, Len(s) - Len(p) + 1, Len(s)) = p

RECURSIVE LStrip(_, _)
LStrip(s, cs) == IF s # <<>> /\ Head(s) \in cs THEN LStrip(Tail(s), cs) ELSE s

RECURSIVE RStrip(_, _)
RStrip(s, cs) ==
    IF s # <<>> /\ s[Len(s)] \in cs THEN RStrip(SubSeq(s, 1, Len(s) - 1), cs) ELSE s

\* str.strip(chars)
Strip(s, cs) == RStrip(LStrip(s, cs), cs)

Whitespace == {" "}
Quotes == {"\"", "'"}

\* -------------------------------------------------------------------------
\* Module constants of URL_Dangerouswords.py
\* -------------------------------------------------------------------------
HTML == <<"t","e","x","t","/","h","t","m","l">>
JPEG == <<"i","m","a","g","e","/","j","p","e","g">>
None == <<"N","o","n","e">>

DANGEROUS_WORDS == {
    <<"b","o","m","b">>,
    <<"k","i","l","l">>,
    <<"m","u","r","d","e","r">>,
    <<"t","e","r","r","o","r">>,
    <<"t","e","r","r","o","r","i","s","t">>,
    <<"t","e","r","r","o","r","i","s","t","s">>,
    <<"t","e","r","r","o","r","i","s","m">> }

VALID_BINARY_EXT == { <<".","j","p","g">>, <<".","p","n","g">>, <<".","b","i","n">> }
VALID_TEXT_EXT == { <<".","t","x","t">>, <<".","h","t","m","l">> }
USER_AGENT == <<"M","o","z","i","l","l","a","/","5",".","0">>

\* -------------------------------------------------------------------------
\* WORD_PATTERN = re.compile(r'\b\w+\b') and count_words
\* -------------------------------------------------------------------------
\* \b at the gap in front of position i (1-based; i = Len+1 is the end)
WordBoundary(s, i) ==
    LET before == i > 1 /\ IsWordChar(s[i - 1])
        after  == i <= Len(s) /\ IsWordChar(s[i])
    IN  before # after

\* greedy \w+ from i: the last position of the run of word characters
RECURSIVE RunEnd(_, _)
RunEnd(s, i) == IF i < Len(s) /\ IsWordChar(s[i + 1]) THEN RunEnd(s, i + 1) ELSE i

\* \b\w+\b anchored at i: the end of the match, or 0 when there is none;
\* the greedy run is given back one character at a time until \b holds
RECURSIVE BackOff(_, _, _)
BackOff(s, i, j) ==
    IF j < i THEN 0
    ELSE IF WordBoundary(s, j + 1) THEN j
    ELSE BackOff(s, i, j - 1)

WordMatchEnd(s, i) ==
    IF i <= Len(s) /\ IsWordChar(s[i]) /\ WordBoundary(s, i)
    THEN BackOff(s, i, RunEnd(s, i))
    ELSE 0

\* WORD_PATTERN.findall(text), scanning from position i
RECURSIVE FindAllFrom(_, _)
FindAllFrom(s, i) ==
    IF i > Len(s) THEN <<>>
    ELSE LET j == WordMatchEnd(s, i)
         IN  IF j = 0 THEN FindAllFrom(s, i + 1)
             ELSE <<SubSeq(s, i, j)>> \o FindAllFrom(s, j + 1)

WORD_PATTERN_findall(s) == FindAllFrom(s, 1)

\* a plausible slip: substring search instead of whole-word tokens
count_words_substring(text) ==
    {w \in DANGEROUS_WORDS :
        \E i \in 1..Len(text) : \E j \in i..Len(text) : Lower(SubSeq(text, i, j)) = w}

count_words(text) ==
    {Lower(word) : word \in Range(WORD_PATTERN_findall(text))} \cap DANGEROUS_WORDS

\* -------------------------------------------------------------------------
\* HTML_CLEANER = re.compile('<[^<]+?>')
\* -------------------------------------------------------------------------
\* lazy [^<]+? followed by '>': the tag opened at i has consumed s[i+1..k-1];
\* returns the position of the closing '>' or 0
RECURSIVE TagClose(_, _)
TagClose(s, k) ==
    IF k > Len(s) THEN 0
    ELSE IF s[k] = ">" THEN k
    ELSE IF s[k] = "<" THEN 0
    ELSE TagClose(s, k + 1)

\* '<[^<]+?>' anchored at i: position of the last character matched, or 0
TagMatchEnd(s, i) ==
    IF s[i] = "<" /\ i + 1 <= Len(s) /\ s[i + 1] # "<"
    THEN TagClose(s, i + 2)
    ELSE 0

RECURSIVE CleanFrom(_, _)
CleanFrom(s, i) ==
    IF i > Len(s) THEN <<>>
    ELSE LET j == TagMatchEnd(s, i)
         IN  IF j = 0 THEN <<s[i]>> \o CleanFrom(s, i + 1)
             ELSE CleanFrom(s, j + 1)

\* a plausible slip: re.sub(..., count=1), only the first tag is removed
RECURSIVE CleanFirstFrom(_, _)
CleanFirstFrom(s, i) ==
    IF i > Len(s) THEN <<>>
    ELSE LET j == TagMatchEnd(s, i)
         IN  IF j = 0 THEN <<s[i]>> \o CleanFirstFrom(s, i + 1)
             ELSE SubSeq(s, j + 1, Len(s))

HTML_CLEANER_sub_first(s) == CleanFirstFrom(s, 1)

\* HTML_CLEANER.sub('', s)
HTML_CLEANER_sub(s) == CleanFrom(s, 1)

\* -------------------------------------------------------------------------
\* bytes.decode('utf-8')
\* -------------------------------------------------------------------------
\* a byte that is not valid UTF-8 on its own
BadByte == "xFF"

\* content.decode('utf-8') raises UnicodeDecodeError
DecodeFails(bytes) == BadByte \in Range(bytes)

\* content.decode('utf-8') on ASCII bytes: each byte is its character
Decode(bytes) == [i \in 1..Len(bytes) |-> bytes[i]]

\* -------------------------------------------------------------------------
\* pathlib.Path on POSIX, paths being character sequences
\* -------------------------------------------------------------------------
\* Path(s): the empty string is the current directory, trailing slashes go
Path(s) ==
    LET t == RStrip(s, {"/"})
    IN  IF t = <<>> THEN (IF s = <<>> THEN <<".">> ELSE <<"/">>) ELSE t

\* position of the last c in s, 0 when there is none
RECURSIVE LastIndex(_, _, _)
LastIndex(s, c, i) == IF i = 0 THEN 0 ELSE IF s[i] = c THEN i ELSE LastIndex(s, c, i - 1)

\* Path.name
PathName(p) == SubSeq(p, LastIndex(p, "/", Len(p)) + 1, Len(p))

\* Path.parent
PathParent(p) ==
    LET i == LastIndex(p, "/", Len(p))
    IN  IF i = 0 THEN <<".">> ELSE IF i = 1 THEN <<"/">> ELSE SubSeq(p, 1, i - 1)

\* Path.suffix: from the last dot of the name, unless that dot leads or ends it
PathSuffix(p) ==
    LET name == PathName(p)
        i    == LastIndex(name, ".", Len(name))
    IN  IF 1 < i /\ i < Len(name) THEN SubSeq(name, i, Len(name)) ELSE <<>>

\* Path.with_suffix(suffix)
WithSuffix(p, suffix) == SubSeq(p, 1, Len(p) - Len(PathSuffix(p))) \o suffix

\* path / name
PathJoin(p, name) == IF p = <<".">> THEN name ELSE p \o <<"/">> \o name

\* the directories that exist before the run
ExistingDirs == { <<".">>, <<"d">>, <<"e",".","j","p","g">> }

\* Path.is_dir()
IsDir(p) == p \in ExistingDirs

\* the directories path.parent.mkdir(parents=True, exist_ok=True) creates
RECURSIVE MkdirParents(_)
MkdirParents(dir) ==
    IF dir \in ExistingDirs \/ dir = <<"/">> THEN {}
    ELSE {dir} \cup MkdirParents(PathParent(dir))

\* -------------------------------------------------------------------------
\* generate_timestamp, generate_filename
\* -------------------------------------------------------------------------
\* datetime.now().strftime("%Y%m%d_%H%M%S") at the moment of the first call
generate_timestamp == <<"2","0","2","4","0","1","3","1","_","2","3","5","9","5","9">>

ExtJpg == <<".","j","p","g">>
ExtTxt == <<".","t","x","t">>
ExtBin == <<".","b","i","n">>

\* a plausible slip: the MIME subtype used as the extension
generate_filename_jpeg(ct) ==
    IF ct = JPEG
    THEN <<"i","m","a","g","e","_">> \o generate_timestamp \o <<".","j","p","e","g">>
    ELSE <<"c","o","n","t","e","n","t","_">> \o generate_timestamp \o <<".","t","e","x","t">>

generate_filename(ct) ==
    IF ct = JPEG
    THEN <<"i","m","a","g","e","_">> \o generate_timestamp \o ExtJpg
    ELSE <<"c","o","n","t","e","n","t","_">> \o generate_timestamp \o ExtTxt

\* -------------------------------------------------------------------------
\* sorted(...) and '\n'.join(...)
\* -------------------------------------------------------------------------
CharOrd(c) == IF c \in Range(LowerLetters) THEN CHOOSE i \in 1..26 : LowerLetters[i] = c ELSE 0

\* str < str
RECURSIVE StrLess(_, _)
StrLess(a, b) ==
    IF b = <<>> THEN FALSE
    ELSE IF a = <<>> THEN TRUE
    ELSE IF CharOrd(Head(a)) # CharOrd(Head(b)) THEN CharOrd(Head(a)) < CharOrd(Head(b))
    ELSE StrLess(Tail(a), Tail(b))

RECURSIVE Sorted(_)
Sorted(S) ==
    IF S = {} THEN <<>>
    ELSE LET m == CHOOSE x \in S : \A y \in S \ {x} : StrLess(x, y)
         IN  <<m>> \o Sorted(S \ {m})

RECURSIVE Join(_, _)
Join(sep, seq) ==
    IF seq = <<>> THEN <<>>
    ELSE IF Len(seq) = 1 THEN seq[1]
    ELSE seq[1] \o sep \o Join(sep, Tail(seq))

NoDangerousWordsFound ==
    <<"N","o"," ","d","a","n","g","e","r","o","u","s"," ",
      "w","o","r","d","s"," ","f","o","u","n","d">>

\* -------------------------------------------------------------------------
\* The writers.  io is what the file system does: "ok", "mkdir_fails"
\* (OSError before the file exists) or "write_fails" (OSError after open).
\* The result is the exception that leaves the call, the file and the
\* directories created, the resolved path and the line printed.
\* -------------------------------------------------------------------------
IOOutcomes == {"ok", "mkdir_fails", "write_fails"}

Line(text, arg) == [text |-> text, arg |-> arg]

WriterResult(exc, msg, arg, file, dirs, out, resolved) ==
    [exc |-> exc, msg |-> msg, arg |-> arg, file |-> file, dirs |-> dirs,
     out |-> out, resolved |-> resolved]

\* lines 53-62 and 101-106: mkdir, open, write, print, except OSError
WriteFile(p, data, mode, io, saved) ==
    IF io = "mkdir_fails"
    THEN WriterResult("URLFetcherError", "File operation failed", p, {}, {}, <<>>, p)
    ELSE IF io = "write_fails"
    THEN WriterResult("URLFetcherError", "File operation failed", p,
                      {[name |-> p, data |-> <<>>, mode |-> mode]},
                      MkdirParents(PathParent(p)), <<>>, p)
    ELSE WriterResult("none", "", <<>>,
                      {[name |-> p, data |-> data, mode |-> mode]},
                      MkdirParents(PathParent(p)), <<Line(saved, p)>>, p)

\* lines 39-46 of save_content: the path the content goes to
ResolveContentPath(pathstr, isbin) ==
    LET p0 == Path(Strip(pathstr, Quotes))
        p1 == IF IsDir(p0) THEN PathJoin(p0, generate_filename(IF isbin THEN JPEG ELSE HTML))
              ELSE p0
    IN  IF PathSuffix(p1) = <<>> THEN WithSuffix(p1, IF isbin THEN ExtBin ELSE ExtTxt) ELSE p1

\* lines 48-51 of save_content
ExtensionRejected(suffix, isbin) ==
    \/ isbin /\ suffix \notin VALID_BINARY_EXT
    \/ ~isbin /\ suffix \notin VALID_TEXT_EXT

save_content(data, pathstr, isbin, io) ==
    LET p == ResolveContentPath(pathstr, isbin)
    IN  IF ExtensionRejected(PathSuffix(p), isbin)
        THEN WriterResult("URLFetcherError",
                          IF isbin THEN "Invalid binary extension" ELSE "Invalid text extension",
                          PathSuffix(p), {}, {}, <<>>, p)
        ELSE WriteFile(p, data, IF isbin THEN "wb" ELSE "w", io, "Saving succeeded to")

\* lines 94-99 of save_dangerous_words
ResolveWordsPath(pathstr) ==
    LET p0 == Path(Strip(pathstr, Quotes))
    IN  IF IsDir(p0)
        THEN PathJoin(p0, <<"d","a","n","g","e","r","o","u","s","_","w","o","r","d","s","_">>
                          \o generate_timestamp \o ExtTxt)
        ELSE IF PathSuffix(p0) = <<>> THEN WithSuffix(p0, ExtTxt)
        ELSE p0

\* a plausible slip: the literal written whatever the scan found
WordsText_always_literal(words) == NoDangerousWordsFound

\* line 102: the text written
WordsText(words) ==
    IF words # {} THEN Join(<<"\n">>, Sorted(words)) ELSE NoDangerousWordsFound

save_dangerous_words(words, pathstr, io) ==
    WriteFile(ResolveWordsPath(pathstr), WordsText(words), "w", io, "Dangerous words saved to")

\* -------------------------------------------------------------------------
\* Inputs of the runs
\* -------------------------------------------------------------------------
SchemeHttp == <<"h","t","t","p",":","/","/">>
SchemeHttps == <<"h","t","t","p","s",":","/","/">>

\* what the user may type at the first prompt
UrlInputs == { SchemeHttp \o <<"h">>, SchemeHttps \o <<"h">>, <<"h">>, <<" ","h"," ">> }

\* Content-Type values a server may send
PLAIN == <<"t","e","x","t","/","p","l","a","i","n">>
ContentTypes == {JPEG, HTML, PLAIN}

\* response bodies a server may send
Bodies == { <<>>,
            <<"<","p",">","k","i","l","l","<","/","p",">">>,
            <<"o","k">>,
            <<"B","o","m","b"," ","t","e","r","r","o","r">>,
            <<BadByte>> }

\* what urlopen may do instead of answering
NetFailures == {"URLError", "HTTPError", "IncompleteRead"}

\* what the user may type at the second prompt
PathInputs == { <<>>, <<"o","u","t">>, <<"o","u","t",".","j","p","g">>,
                <<"o","u","t",".","t","x","t">>, <<"'","q",".","t","x","t","'">>,
                <<"n","/","f",".","h","t","m","l">>, <<"d">>, <<"e",".","j","p","g">> }

\* paths handed to a writer called on its own
WriterPaths == PathInputs \cup { <<"x",".","p","n","g">>, <<"x",".","e","x","e">>, <<"d","/">> }

WriterContents == { <<"o","k">>, <<BadByte>> }

WriterWordSets == { {}, {<<"k","i","l","l">>}, {<<"t","e","r","r","o","r">>, <<"b","o","m","b">>} }

\* pieces the scanned texts are assembled from
Pieces == { <<"b","o","m","b">>, <<"b","o","m","b","a","s","t","i","c">>,
            <<"K","i","L","L">>, <<"k","i","l","l">>, <<" ">>, <<"_">>,
            <<"<","p",">">>, <<"<","/","p",">">>, <<"<">>, <<">">>,
            <<"t","e","r","r","o","r">>, <<"i","s","t">>, <<"s">> }

RECURSIVE TextsUpTo(_)
TextsUpTo(n) ==
    IF n = 0 THEN {<<>>}
    ELSE LET prev == TextsUpTo(n - 1)
         IN  prev \cup {t \o q : t \in prev, q \in Pieces}

Texts == TextsUpTo(MaxPieces)

\* -------------------------------------------------------------------------
\* check_url, load_url and the decisions of main
\* -------------------------------------------------------------------------
\* line 78
PrefixScheme(u) ==
    IF ~(StartsWith(u, SchemeHttp) \/ StartsWith(u, SchemeHttps)) THEN SchemeHttp \o u ELSE u

\* urllib.request.Request(url): "unknown url type" (ValueError) without a scheme
UrlOpenable(u) == StartsWith(u, SchemeHttp) \/ StartsWith(u, SchemeHttps)

CheckResult(exc, valid, ct, read) == [exc |-> exc, valid |-> valid, ct |-> ct, read |-> read]

\* a plausible slip: the body is read and decoded before the header is looked at
ClassifyResponse_body_first(ct, body) ==
    IF DecodeFails(body) THEN CheckResult("URLFetcherError", FALSE, None, TRUE)
    ELSE IF Decode(body) = <<>> THEN CheckResult("none", FALSE, None, TRUE)
    ELSE IF ct = JPEG THEN CheckResult("none", TRUE, JPEG, TRUE)
    ELSE CheckResult("none", TRUE, HTML, TRUE)

\* lines 82-87
ClassifyResponse(ct, body) ==
    IF ct = JPEG THEN CheckResult("none", TRUE, JPEG, FALSE)
    ELSE IF DecodeFails(body) THEN CheckResult("URLFetcherError", FALSE, None, TRUE)
    ELSE IF Decode(body) # <<>> THEN CheckResult("none", TRUE, HTML, TRUE)
    ELSE CheckResult("none", FALSE, None, TRUE)

\* a plausible slip: the guard of line 113 dropped
IsRejected_never(valid, ct) == FALSE

\* line 113
IsRejected(valid, ct) == ~valid \/ ct = None

\* a plausible slip: the branches of line 119 exchanged
IsHtmlBranch_swapped(ct) == ct = JPEG

\* line 119
IsHtmlBranch(ct) == ct = HTML

\* line 126
ImageTarget(p) == IF ~EndsWith(p, ExtJpg) THEN p \o ExtJpg ELSE p

NoResp == [got |-> FALSE, ct |-> None, body |-> <<>>, read |-> FALSE]
NoCall == [writer |-> "none", path |-> <<>>, is_binary |-> FALSE, exc |-> "none",
           msg |-> "", resolved |-> <<>>]

Request(by, u, agent, sent) == [by |-> by, url |-> u, agent |-> agent, sent |-> sent]

\* line 129
ErrorLine(msg, arg) == Line("Error: " \o msg, arg)

\* line 131
CancelledLine == Line("Operation cancelled by user", <<>>)

\* -------------------------------------------------------------------------
\* main
\* -------------------------------------------------------------------------
Init ==
    /\ pc = "prompt_url"
    /\ url = <<>>
    /\ is_valid = FALSE
    /\ content_type = None
    /\ resp = NoResp
    /\ content = <<>>
    /\ path = <<>>
    /\ is_binary = FALSE
    /\ text_content = <<>>
    /\ dangerous_words = {}
    /\ requests = <<>>
    /\ files = {}
    /\ dirsMade = {}
    /\ output = <<>>
    /\ raised = "none"
    /\ call = NoCall
    /\ steps = <<>>

\* line 110: the URL is typed
PromptUrl ==
    /\ pc = "prompt_url"
    /\ \E typed \in UrlInputs : url' = Strip(typed, Whitespace)
    /\ pc' = "check_url"
    /\ steps' = Append(steps, "input_url")
    /\ UNCHANGED <<is_valid, content_type, resp, content, path, is_binary, text_content,
                   dangerous_words, requests, files, dirsMade, output, raised, call>>

\* line 110 and 130-131: Ctrl-C at the first prompt
InterruptUrl ==
    /\ pc = "prompt_url"
    /\ output' = Append(output, CancelledLine)
    /\ pc' = "done"
    /\ UNCHANGED <<url, is_valid, content_type, resp, content, path, is_binary, text_content,
                   dangerous_words, requests, files, dirsMade, raised, call, steps>>

\* line 110: end of input at the first prompt; EOFError has no handler
EofUrl ==
    /\ pc = "prompt_url"
    /\ raised' = "EOFError"
    /\ pc' = "done"
    /\ UNCHANGED <<url, is_valid, content_type, resp, content, path, is_binary, text_content,
                   dangerous_words, requests, files, dirsMade, output, call, steps>>

\* line 111, check_url fails: every exception becomes URLFetcherError (86-87),
\* which main prints (128-129)
CheckUrlFails ==
    /\ pc = "check_url"
    /\ requests' = Append(requests, Request("check_url", PrefixScheme(url), USER_AGENT, TRUE))
    /\ \E f \in NetFailures :
         output' = Append(output, ErrorLine("URL validation failed", <<>>))
    /\ pc' = "done"
    /\ UNCHANGED <<url, is_valid, content_type, resp, content, path, is_binary, text_content,
                   dangerous_words, files, dirsMade, raised, call, steps>>

\* line 111, check_url gets a response
CheckUrlResponds ==
    /\ pc = "check_url"
    /\ requests' = Append(requests, Request("check_url", PrefixScheme(url), USER_AGENT, TRUE))
    /\ \E ct \in ContentTypes, body \in Bodies :
         LET r == ClassifyResponse(ct, body)
         IN  /\ resp' = [got |-> TRUE, ct |-> ct, body |-> body, read |-> r.read]
             /\ IF r.exc = "none"
                THEN /\ is_valid' = r.valid
                     /\ content_type' = r.ct
                     /\ steps' = Append(steps, "check_url")
                     /\ pc' = "classify"
                     /\ UNCHANGED output
                ELSE /\ output' = Append(output, ErrorLine("URL validation failed", <<>>))
                     /\ pc' = "done"
                     /\ UNCHANGED <<is_valid, content_type, steps>>
    /\ UNCHANGED <<url, content, path, is_binary, text_content, dangerous_words, files,
                   dirsMade, raised, call>>

\* lines 113-114
Classify ==
    /\ pc = "classify"
    /\ IF IsRejected(is_valid, content_type)
       THEN /\ output' = Append(output,
                                ErrorLine("Invalid URL or unsupported content type", <<>>))
            /\ pc' = "done"
       ELSE /\ pc' = "load_url"
            /\ UNCHANGED output
    /\ UNCHANGED <<url, is_valid, content_type, resp, content, path, is_binary, text_content,
                   dangerous_words, requests, files, dirsMade, raised, call, steps>>

\* line 116 with a URL urlopen cannot parse: ValueError, which load_url (69)
\* and main (128-131) do not catch
LoadUrlUnknownType ==
    /\ pc = "load_url"
    /\ ~UrlOpenable(url)
    /\ requests' = Append(requests, Request("load_url", url, <<>>, FALSE))
    /\ raised' = "ValueError"
    /\ pc' = "done"
    /\ UNCHANGED <<url, is_valid, content_type, resp, content, path, is_binary, text_content,
                   dangerous_words, files, dirsMade, output, call, steps>>

\* line 116, urlopen or read fails: URLError and HTTPError become URLFetcherError
\* (69-70), anything else leaves main
LoadUrlFails ==
    /\ pc = "load_url"
    /\ UrlOpenable(url)
    /\ requests' = Append(requests, Request("load_url", url, <<>>, TRUE))
    /\ \E f \in NetFailures :
         IF f \in {"URLError", "HTTPError"}
         THEN /\ output' = Append(output, ErrorLine("Failed to load URL", <<>>))
              /\ UNCHANGED raised
         ELSE /\ raised' = f
              /\ UNCHANGED output
    /\ pc' = "done"
    /\ UNCHANGED <<url, is_valid, content_type, resp, content, path, is_binary, text_content,
                   dangerous_words, files, dirsMade, call, steps>>

\* line 116, the server answers (66-68)
LoadUrlResponds ==
    /\ pc = "load_url"
    /\ UrlOpenable(url)
    /\ requests' = Append(requests, Request("load_url", url, <<>>, TRUE))
    /\ \E body \in Bodies :
         IF content_type = JPEG
         THEN /\ content' = body
              /\ steps' = Append(steps, "load_url")
              /\ pc' = "prompt_path"
              /\ UNCHANGED raised
         ELSE IF DecodeFails(body)
         THEN /\ raised' = "UnicodeDecodeError"
              /\ pc' = "done"
              /\ UNCHANGED <<content, steps>>
         ELSE /\ content' = Decode(body)
              /\ steps' = Append(steps, "load_url")
              /\ pc' = "prompt_path"
              /\ UNCHANGED raised
    /\ UNCHANGED <<url, is_valid, content_type, resp, path, is_binary, text_content,
                   dangerous_words, files, dirsMade, output, call>>

\* line 117: the path is typed
PromptPath ==
    /\ pc = "prompt_path"
    /\ \E typed \in PathInputs : path' = Strip(typed, Quotes)
    /\ pc' = IF IsHtmlBranch(content_type) THEN "scan" ELSE "save_image"
    /\ steps' = Append(steps, "input_path")
    /\ UNCHANGED <<url, is_valid, content_type, resp, content, is_binary, text_content,
                   dangerous_words, requests, files, dirsMade, output, raised, call>>

\* line 117 and 130-131: Ctrl-C at the second prompt
InterruptPath ==
    /\ pc = "prompt_path"
    /\ output' = Append(output, CancelledLine)
    /\ pc' = "done"
    /\ UNCHANGED <<url, is_valid, content_type, resp, content, path, is_binary, text_content,
                   dangerous_words, requests, files, dirsMade, raised, call, steps>>

\* line 117: end of input at the second prompt
EofPath ==
    /\ pc = "prompt_path"
    /\ raised' = "EOFError"
    /\ pc' = "done"
    /\ UNCHANGED <<url, is_valid, content_type, resp, content, path, is_binary, text_content,
                   dangerous_words, requests, files, dirsMade, output, call, steps>>

\* lines 120-123
Scan ==
    /\ pc = "scan"
    /\ text_content' = HTML_CLEANER_sub(content)
    /\ dangerous_words' = count_words(text_content')
    /\ output' = IF dangerous_words' # {}
                 THEN Append(output, Line("Dangerous words found:",
                                          Join(<<",", " ">>, Sorted(dangerous_words'))))
                 ELSE output
    /\ steps' = Append(steps, "scan")
    /\ pc' = "save_words"
    /\ UNCHANGED <<url, is_valid, content_type, resp, content, path, is_binary, requests,
                   files, dirsMade, raised, call>>

\* the effect of a writer call that returned r, and of main's handler (128-129)
WriterEffect(name, given, isbin, r) ==
    /\ files' = files \cup r.file
    /\ dirsMade' = dirsMade \cup r.dirs
    /\ call' = [writer |-> name, path |-> given, is_binary |-> isbin, exc |-> r.exc,
                msg |-> r.msg, resolved |-> r.resolved]
    /\ output' = IF r.exc = "none" THEN output \o r.out
                 ELSE Append(output \o r.out, ErrorLine(r.msg, r.arg))
    /\ steps' = IF r.exc = "none" THEN Append(steps, name) ELSE steps

\* line 124
SaveWords ==
    /\ pc = "save_words"
    /\ \E io \in IOOutcomes :
         WriterEffect("save_dangerous_words", path, FALSE,
                      save_dangerous_words(dangerous_words, path, io))
    /\ pc' = "done"
    /\ UNCHANGED <<url, is_valid, content_type, resp, content, path, is_binary, text_content,
                   dangerous_words, requests, raised>>

\* line 126
SaveImage ==
    /\ pc = "save_image"
    /\ is_binary' = TRUE
    /\ \E io \in IOOutcomes :
         WriterEffect("save_content", ImageTarget(path), TRUE,
                      save_content(content, ImageTarget(path), TRUE, io))
    /\ pc' = "done"
    /\ UNCHANGED <<url, is_valid, content_type, resp, content, path, text_content,
                   dangerous_words, requests, raised>>

Next ==
    \/ PromptUrl
    \/ InterruptUrl
    \/ EofUrl
    \/ CheckUrlFails
    \/ CheckUrlResponds
    \/ Classify
    \/ LoadUrlUnknownType
    \/ LoadUrlFails
    \/ LoadUrlResponds
    \/ PromptPath
    \/ InterruptPath
    \/ EofPath
    \/ Scan
    \/ SaveWords
    \/ SaveImage

Spec == Init /\ [][Next]_vars

\* -------------------------------------------------------------------------
\* The writers called on their own, on every path and in both modes
\* -------------------------------------------------------------------------
InitWriter ==
    /\ pc = "writer_call"
    /\ url = <<>>
    /\ is_valid = FALSE
    /\ content_type = None
    /\ resp = NoResp
    /\ content \in WriterContents
    /\ path \in WriterPaths
    /\ is_binary \in BOOLEAN
    /\ text_content = <<>>
    /\ dangerous_words \in WriterWordSets
    /\ requests = <<>>
    /\ files = {}
    /\ dirsMade = {}
    /\ output = <<>>
    /\ raised = "none"
    /\ call = NoCall
    /\ steps = <<>>

\* save_content(content, path, is_binary)
CallSaveContent ==
    /\ pc = "writer_call"
    /\ \E io \in IOOutcomes :
         LET r == save_content(content, path, is_binary, io)
         IN  /\ WriterEffect("save_content", path, is_binary, r)
             /\ raised' = r.exc
    /\ pc' = "writer_done"
    /\ UNCHANGED <<url, is_valid, content_type, resp, content, path, is_binary, text_content,
                   dangerous_words, requests>>

\* save_dangerous_words(dangerous_words, path)
CallSaveDangerousWords ==
    /\ pc = "writer_call"
    /\ \E io \in IOOutcomes :
         LET r == save_dangerous_words(dangerous_words, path, io)
         IN  /\ WriterEffect("save_dangerous_words", path, FALSE, r)
             /\ raised' = r.exc
    /\ pc' = "writer_done"
    /\ UNCHANGED <<url, is_valid, content_type, resp, content, path, is_binary, text_content,
                   dangerous_words, requests>>

NextWriter == CallSaveContent \/ CallSaveDangerousWords

SpecWriter == InitWriter /\ [][NextWriter]_vars

\* -------------------------------------------------------------------------
\* The scanner applied to every text assembled from the pieces
\* -------------------------------------------------------------------------
InitText ==
    /\ pc = "text_start"
    /\ url = <<>>
    /\ is_valid = TRUE
    /\ content_type = HTML
    /\ resp = NoResp
    /\ content \in Texts
    /\ path = <<>>
    /\ is_binary = FALSE
    /\ text_content = <<>>
    /\ dangerous_words = {}
    /\ requests = <<>>
    /\ files = {}
    /\ dirsMade = {}
    /\ output = <<>>
    /\ raised = "none"
    /\ call = NoCall
    /\ steps = <<>>

\* count_words(content)
CallCountWords ==
    /\ pc = "text_start"
    /\ dangerous_words' = count_words(content)
    /\ pc' = "counted"
    /\ UNCHANGED <<url, is_valid, content_type, resp, content, path, is_binary, text_content,
                   requests, files, dirsMade, output, raised, call, steps>>

\* lines 120-121: count_words(HTML_CLEANER.sub('', content))
CallStripAndScan ==
    /\ pc = "text_start"
    /\ text_content' = HTML_CLEANER_sub(content)
    /\ dangerous_words' = count_words(text_content')
    /\ pc' = "scanned"
    /\ UNCHANGED <<url, is_valid, content_type, resp, content, path, is_binary, requests,
                   files, dirsMade, output, raised, call, steps>>

NextText == CallCountWords \/ CallStripAndScan

SpecText == InitText /\ [][NextText]_vars

\* -------------------------------------------------------------------------
\* Properties
\* -------------------------------------------------------------------------
Kill == <<"k","i","l","l">>

\* the GETs that went out so far
Sent == {i \in 1..Len(requests) : requests[i].sent}

\* C1: whatever fails in check_url, load_url, the scan or the writers is
\* caught in main and printed; no exception raised there leaves main.
C1_AllFailuresCaught ==
    pc = "done" => raised \in {"none", "EOFError"}

\* C2: for a URL typed without a scheme, every request of the run (check_url's
\* and load_url's) goes to the URL with 'http://' in front of it.
C2_EveryRequestPrefixed ==
    \A i \in 1..Len(requests) :
        ~UrlOpenable(url) => /\ requests[i].url = SchemeHttp \o url
                             /\ requests[i].sent

GivenSuffix == PathSuffix(Path(Strip(call.path, Quotes)))

InvalidExtensionMsgs == {"Invalid binary extension", "Invalid text extension"}

\* C4: each writer of the pipeline rejects a binary write to a '.txt' path and
\* a text write to a '.jpg' path with an invalid-extension error, writing nothing.
C4_WritersRejectWrongExtension ==
    (/\ call.writer # "none"
     /\ ~IsDir(Path(Strip(call.path, Quotes)))
     /\ \/ call.is_binary /\ GivenSuffix = ExtTxt
        \/ ~call.is_binary /\ GivenSuffix = ExtJpg)
    => /\ call.msg \in InvalidExtensionMsgs
       /\ files = {}

\* C5: check_url answers JPEG for Content-Type image/jpeg without reading the
\* body, HTML for any other response whose body decodes to non-empty text, and
\* (False, None) for any other response with an empty body, which main reports
\* as 'Invalid URL or unsupported content type' and goes no further.
C5_Classification ==
    resp.got =>
        /\ resp.ct = JPEG => /\ is_valid
                             /\ content_type = JPEG
                             /\ ~resp.read
        /\ (resp.ct # JPEG /\ ~DecodeFails(resp.body) /\ Len(resp.body) > 0)
              => is_valid /\ content_type = HTML
        /\ (resp.ct # JPEG /\ Len(resp.body) = 0)
              => /\ ~is_valid
                 /\ content_type = None
                 /\ pc \in {"classify", "done"}
                 /\ pc = "done" =>
                      /\ output = <<ErrorLine("Invalid URL or unsupported content type", <<>>)>>
                      /\ Len(requests) = 1
                      /\ files = {}

C5_Witness ==
    /\ pc = "classify"
    /\ resp.ct = JPEG
    /\ resp.body = <<BadByte>>
    /\ content_type = JPEG

\* w occurs in t as a whole word, in any letter case
OccursAsWholeWord(w, t) ==
    \E i \in 1..Len(t) :
        LET j == i + Len(w) - 1
        IN  /\ j <= Len(t)
            /\ Lower(SubSeq(t, i, j)) = w
            /\ i = 1 \/ ~IsWordChar(t[i - 1])
            /\ j = Len(t) \/ ~IsWordChar(t[j + 1])

\* C6: count_words returns exactly the denylist words that occur in the text
\* as a whole word in any letter case, in lowercase; a word that occurs only
\* inside a longer word is not returned.
C6_WholeWordsOnly ==
    pc = "counted" =>
        dangerous_words = {w \in DANGEROUS_WORDS : OccursAsWholeWord(w, content)}

C6_Witness ==
    /\ pc = "counted"
    /\ content = <<"K","i","L","L"," ","b","o","m","b","a","s","t","i","c">>
    /\ dangerous_words = {Kill}

\* t has a '<' with a '>' somewhere after it
HasTagSpan(t) ==
    \E i \in 1..Len(t) : \E j \in (i + 1)..Len(t) : t[i] = "<" /\ t[j] = ">"

\* C7: after tag stripping no span that begins with '<' and ends with '>' is
\* left in the text handed to the scanner.
C7_NoSpanRemains ==
    pc = "scanned" => ~HasTagSpan(text_content)

\* every '<' of t opens a tag: at least one character other than '<' follows
\* it, and then a '>' before any other '<'
TagsWellFormed(t) ==
    \A i \in 1..Len(t) :
        t[i] = "<" =>
            \E j \in (i + 2)..Len(t) :
                /\ t[j] = ">"
                /\ \A k \in (i + 1)..(j - 1) : t[k] # "<"

ParaKill == <<"<","p",">","k","i","l","l","<","/","p",">">>

\* C7 (amended): when every '<' of the input opens a tag (one or more
\* characters other than '<', then '>'), tag stripping leaves no '<' and hence
\* no '<...>' span; '<p>kill</p>' scans to {'kill'}.
C7_WellFormedTagsStripped ==
    pc = "scanned" =>
        /\ TagsWellFormed(content) => "<" \notin Range(text_content)
        /\ content = ParaKill => text_content = Kill /\ dangerous_words = {Kill}

C7_Witness ==
    /\ pc = "scanned"
    /\ content = ParaKill
    /\ dangerous_words = {Kill}

\* position of the first occurrence of step name x in steps, 0 when absent
StepAt(x) ==
    IF \E i \in 1..Len(steps) : steps[i] = x
    THEN CHOOSE i \in 1..Len(steps) : steps[i] = x /\ \A k \in 1..(i - 1) : steps[k] # x
    ELSE 0

\* C8: a run writes at most one file, and only after check_url and load_url
\* succeeded and the content was classified HTML or JPEG: for HTML after the
\* scan, for JPEG without a scan; a run that fails earlier writes nothing.
C8_OneFileAfterFetch ==
    /\ Cardinality(files) <= 1
    /\ files # {} =>
         /\ is_valid
         /\ content_type \in {HTML, JPEG}
         /\ 0 < StepAt("check_url")
         /\ StepAt("check_url") < StepAt("load_url")
         /\ content_type = HTML => /\ StepAt("load_url") < StepAt("scan")
                                   /\ call.writer = "save_dangerous_words"
         /\ content_type = JPEG => /\ StepAt("scan") = 0
                                   /\ call.writer = "save_content"
    /\ (pc = "done" /\ StepAt("load_url") = 0) => files = {}

C8_Witness ==
    /\ pc = "done"
    /\ content_type = JPEG
    /\ Cardinality(files) = 1
    /\ call.exc = "none"

\* t contains u as a contiguous part
Contains(t, u) ==
    \E i \in 1..(Len(t) - Len(u) + 1) : SubSeq(t, i, i + Len(u) - 1) = u

\* C9: given an existing directory, a writer writes inside that directory a
\* file named after the timestamp, with '.jpg' for a binary and '.txt' for a
\* text write, and that name is never rejected by the extension allow-list.
C9_DirectoryGetsTimestampedName ==
    (pc = "writer_done" /\ IsDir(Path(Strip(call.path, Quotes)))) =>
        /\ call.msg \notin InvalidExtensionMsgs
        /\ PathParent(call.resolved) = PathParent(PathJoin(Path(Strip(call.path, Quotes)), <<"f">>))
        /\ Contains(PathName(call.resolved), generate_timestamp)
        /\ PathSuffix(call.resolved) = IF call.is_binary THEN ExtJpg ELSE ExtTxt
        /\ PathSuffix(call.resolved) \in IF call.is_binary THEN VALID_BINARY_EXT ELSE VALID_TEXT_EXT
        /\ call.exc = "none" => \E f \in files : files = {f} /\ f.name = call.resolved

C9_Witness ==
    /\ pc = "writer_done"
    /\ call.writer = "save_content"
    /\ call.is_binary
    /\ call.path = <<"d">>
    /\ call.exc = "none"
    /\ files # {}

\* the lines of a text, split at '\n'
RECURSIVE SplitLines(_, _)
SplitLines(t, cur) ==
    IF t = <<>> THEN {cur}
    ELSE IF Head(t) = "\n" THEN {cur} \cup SplitLines(Tail(t), <<>>)
    ELSE SplitLines(Tail(t), Append(cur, Head(t)))

\* C10: when the scan found nothing the file holds exactly the literal
\* 'No dangerous words found'; otherwise it holds the matched words, one per
\* line, and never that literal.
C10_LiteralIffEmpty ==
    (pc = "done" /\ call.writer = "save_dangerous_words" /\ call.exc = "none") =>
        \E f \in files :
            /\ files = {f}
            /\ dangerous_words = {} => f.data = NoDangerousWordsFound
            /\ dangerous_words # {} => /\ f.data # NoDangerousWordsFound
                                       /\ SplitLines(f.data, <<>>) = dangerous_words

C10_Witness ==
    /\ pc = "done"
    /\ call.writer = "save_dangerous_words"
    /\ call.exc = "none"
    /\ dangerous_words = {}
    /\ \E f \in files : f.data = NoDangerousWordsFound

====
